---- MODULE Spec2Model ----
(***************************************************************************)
(* Thermacell LIV integration: the coordinator's state store (poll and     *)
(* the five write commands, coordinator.py) and the API client's           *)
(* transport and authentication (api.py).                                  *)
(*                                                                         *)
(* Spec     the coordinator: one poll and one command may be in flight at  *)
(*          a time and interleave at their await points.                   *)
(* SpecApi  the API client: concurrent _make_request callers sharing one   *)
(*          client (access_token, user_id, _auth_lock).                    *)
(***************************************************************************)
EXTENDS Integers, Sequences, FiniteSets, TLC

\* ------------------------------------------------------------------ bounds
\* polls started in one behaviour
MaxPolls == 2
\* commands issued in one behaviour
MaxCmds == 1
\* calls made on the API client in one behaviour
MaxCalls == 2

\* --------------------------------------------------------------- constants
RETRY_ATTEMPTS == 3
\* the vendor's brightness scale is 0..PctMax, the host's 0..HostMax
PctMax == 100
HostMax == 255

NodeIds == {"n1", "n2"}
\* order in which get_user_nodes lists the nodes
NodeOrder == <<"n1", "n2">>
\* the vendor's device block and the device name it yields
HubName == "LIV Hub"

EmptyMap == << >>
NoColor == [r |-> 0, g |-> 0, b |-> 0]

NoCmd == [pc |-> "idle", kind |-> "none", node |-> "",
          device |-> "", on |-> FALSE, rgb |-> NoColor,
          level |-> 0, in_poll |-> FALSE]

NoPatch == [some |-> FALSE, kind |-> "none", node |-> "",
            device |-> "", power |-> FALSE, led_power |-> FALSE,
            led_color |-> NoColor, led_brightness |-> 0, refill_life |-> 0]

\* nothing fetched, nothing skipped
NoSeen == [fetched |-> {}, skipped |-> {}]

VARIABLES
    api,                \* class of the object passed as self.api
    data,               \* self.data / self.nodes: node id -> node record
    poll_pc,            \* "idle", or the await the poll is suspended at:
                        \* "get_user_nodes", or "node" (the status and
                        \* config fetches of one node)
    nodes_data,         \* the part of the list get_user_nodes returned
                        \* that the loop has not finished: its head is the
                        \* node being fetched
    updated_data,       \* the map under construction
    poll_result,        \* outcome of the last finished poll
    poll_exc,           \* history: the exception the last poll caught
    n_polls,            \* polls started
    cmd,                \* the command in flight, or the last one returned
    cmd_api,            \* history: what the API call of the last command
                        \* reported
    cmd_result,         \* what the last command returned
    cmd_notified,       \* the last command called the update listeners
    n_cmds,             \* commands issued
    refresh_requested,  \* async_request_refresh was called, poll not yet run
    poll_patch,         \* history: the last patch applied by a command that
                        \* started and returned while the current poll was
                        \* in flight
    poll_seen           \* history: what the vendor answered in the poll in
                        \* flight or the last successful one: the nodes
                        \* whose status fetch returned data, with the
                        \* answers, and the names of the nodes skipped

VARIABLES
    access_token,       \* self.access_token: 0 is None, k the token that the
                        \* k-th login request returned
    user_id,            \* self.user_id: 0 is None, k the id from login k
    lock_holder,        \* the caller inside "async with self._auth_lock"
    lock_waiters,       \* callers waiting for the lock, first come first
    logins,             \* POST /v1/login2 requests sent so far
    n_calls,            \* authenticate and _make_request calls made so far
    good_tokens,        \* history: the tokens set by authenticate() calls
                        \* that returned True
    req                 \* per caller: the call it is making and its history

VARIABLES
    conv                \* a value on its way through the conversions between
                        \* the vendor's scales and the host's: the input,
                        \* the steps applied so far and what they gave

VARIABLES
    light               \* one call of the light entity of a device: how far
                        \* it has got, the device's record in the store and
                        \* the "LIV Hub" parameters the vendor holds

apiVars == <<access_token, user_id, lock_holder, lock_waiters, logins,
             n_calls, good_tokens, req>>

coordVars == <<api, data, poll_pc, nodes_data, updated_data,
               poll_result, poll_exc, n_polls, cmd, cmd_api,
               cmd_result, cmd_notified,
               n_cmds, refresh_requested, poll_patch, poll_seen>>

\* ------------------------------------------------------- vendor responses
\* "LIV Hub" parameter blocks the vendor cloud may report.  malformed: a
\* field the normalizer compares or divides (Error, LED Hue, LED Brightness)
\* holds a non-numeric value.
HubBlocks ==
    { [enable |-> TRUE,  bright |-> 100, hue |-> 0,   refill |-> 100,
       status |-> 3, error |-> 0, hub_id |-> "H1", runtime |-> 120,
       malformed |-> FALSE],
      [enable |-> FALSE, bright |-> 56,  hue |-> 240, refill |-> 40,
       status |-> 2, error |-> 5, hub_id |-> "H2", runtime |-> 0,
       malformed |-> FALSE],
      [enable |-> TRUE,  bright |-> 100, hue |-> 0,   refill |-> 100,
       status |-> 3, error |-> 0, hub_id |-> "H3", runtime |-> 1,
       malformed |-> TRUE] }

\* the blocks whose every field is numeric
WellFormed == { h \in HubBlocks : ~h.malformed }

\* what get_node_status and get_node_config may return for one node: each
\* nothing (some = FALSE) or a connectivity block / an info block
NoStatus == [some |-> FALSE, connected |-> FALSE, timestamp |-> 0]
NoConfig == [some |-> FALSE, fw_version |-> "", model |-> ""]
Info == [some |-> TRUE, fw_version |-> "5.3.2", model |-> "thermacell-hub"]

StatusSet ==
    { NoStatus,
      [some |-> TRUE, connected |-> TRUE,  timestamp |-> 5000],
      [some |-> TRUE, connected |-> FALSE, timestamp |-> 5000] }

\* the config answers that go with a status answer
ConfigReturns(status) == IF status.connected THEN {Info} ELSE {NoConfig}

\* ------------------------------------------------------------- normalizer
\* colorsys.hsv_to_rgb(h, 1.0, v) followed by int(c * 255), for
\* h = hue / 360 and v = brightness / 100, in exact arithmetic
HsvToRgb(hue, brightness) ==
    LET i == (hue \div 60) % 6
        f == hue % 60
        v == (brightness * 255) \div 100
        t == (brightness * f * 255) \div 6000
        q == (brightness * (60 - f) * 255) \div 6000
    IN  CASE i = 0 -> [r |-> v, g |-> t, b |-> 0]
          [] i = 1 -> [r |-> q, g |-> v, b |-> 0]
          [] i = 2 -> [r |-> 0, g |-> v, b |-> t]
          [] i = 3 -> [r |-> 0, g |-> q, b |-> v]
          [] i = 4 -> [r |-> t, g |-> 0, b |-> v]
          [] OTHER -> [r |-> v, g |-> 0, b |-> q]

StatusText(error, enable_repellers, system_status) ==
    IF error > 0 THEN "Error"
    ELSE IF ~enable_repellers THEN "Off"
    ELSE IF system_status = 1 THEN "Off"
    ELSE IF system_status = 2 THEN "Warming Up"
    ELSE IF system_status = 3 THEN "On"
    ELSE "Unknown"

\* the percent taken for the host value, unscaled
HaBrightness_Unscaled(brightness) == brightness

\* int((brightness / 100) * 255) if brightness > 0 else 0
HaBrightness(brightness) ==
    IF brightness > 0 THEN (brightness * 255) \div 100 ELSE 0

\* the percent rounded up
BrightnessPct_Ceil(brightness) == (brightness * 100 + 254) \div 255

\* int((brightness / 255) * 100)
BrightnessPct(brightness) == (brightness * 100) \div 255

\* led_power as the poll derives it from the vendor block
PollLedPower(hub_powered, brightness) == hub_powered /\ brightness > 0

DeviceRecord(hub, status) ==
    [ power              |-> hub.enable,
      led_power          |-> PollLedPower(hub.enable, hub.bright),
      led_brightness     |-> HaBrightness(hub.bright),
      led_brightness_pct |-> hub.bright,
      led_color          |-> HsvToRgb(hub.hue, hub.bright),
      refill_life        |-> hub.refill,
      system_status      |-> StatusText(hub.error, hub.enable, hub.status),
      system_status_code |-> hub.status,
      error_code         |-> hub.error,
      last_updated       |-> status.timestamp \div 1000 ]

NodeInfo(node, status, config) ==
    [ id             |-> node.id,
      name           |-> node.node_name,
      type           |-> node.type,
      fw_version     |-> IF config.some THEN config.fw_version ELSE "Unknown",
      model          |-> IF config.some THEN config.model ELSE "Thermacell LIV",
      hub_serial     |-> IF HubName \in DOMAIN node.params
                         THEN node.params[HubName].hub_id ELSE "None",
      system_runtime |-> IF HubName \in DOMAIN node.params
                         THEN node.params[HubName].runtime ELSE -1,
      online         |-> status.connected,
      devices        |-> IF HubName \in DOMAIN node.params
                         THEN (HubName :> DeviceRecord(node.params[HubName], status))
                         ELSE EmptyMap ]

\* colorsys.rgb_to_hsv(r / 255, g / 255, b / 255) followed by
\* hue = int(h * 360): the saturation is dropped
RgbToHue(c) ==
    LET maxc == IF c.r >= c.g /\ c.r >= c.b THEN c.r
                ELSE IF c.g >= c.b THEN c.g ELSE c.b
        minc == IF c.r <= c.g /\ c.r <= c.b THEN c.r
                ELSE IF c.g <= c.b THEN c.g ELSE c.b
        d == maxc - minc
    IN  IF d = 0 THEN 0
        ELSE IF c.r = maxc THEN ((60 * (c.g - c.b)) \div d) % 360
        ELSE IF c.g = maxc THEN (120 + (60 * (c.b - c.r)) \div d) % 360
        ELSE (240 + (60 * (c.r - c.g)) \div d) % 360

\* brightness = int(v * 100), v the largest component / 255
RgbToBrightness(c) ==
    LET maxc == IF c.r >= c.g /\ c.r >= c.b THEN c.r
                ELSE IF c.g >= c.b THEN c.g ELSE c.b
    IN  (maxc * 100) \div 255

\* ------------------------------------------------------------------- poll
\* The node entries get_user_nodes may return for node n.  The first node
\* takes every shape (no "LIV Hub" block, a malformed block, no "id": the
\* client of api.py always fills in "id", another api object may omit
\* it); the second one always carries a well-formed block.
Entry(id, n, p) == [id |-> id, node_name |-> n, type |-> "LIV Hub", params |-> p]

NodeEntries(a, n) ==
    IF n = NodeOrder[1]
    THEN { Entry(n, n, p) : p \in {EmptyMap} \cup { (HubName :> h) : h \in HubBlocks } }
         \cup (IF a = "ThermacellLivAPI" THEN {} ELSE { Entry("", n, EmptyMap) })
    ELSE { Entry(n, n, (HubName :> h)) : h \in WellFormed }

\* the lists get_user_nodes may return: every listed node in NodeOrder
NodeLists(a) ==
    { << >> }
    \cup { <<e>> : e \in NodeEntries(a, NodeOrder[1]) \cup NodeEntries(a, NodeOrder[2]) }
    \cup { <<e1, e2>> : e1 \in NodeEntries(a, NodeOrder[1]),
                         e2 \in NodeEntries(a, NodeOrder[2]) }

\* the methods of self.api the coordinator calls that the object lacks
MissingMethods(a) ==
    IF a = "ThermacellLivAPI" THEN {"get_node_config", "led_brightness"} ELSE {}

\* an except clause that names only the API's own errors
ExceptHandler_Narrow(exc) ==
    IF exc \in {"NoNodes", "ApiError"} THEN "UpdateFailed" ELSE exc

\* except Exception as err: raise UpdateFailed(...) from err
ExceptHandler(exc) == "UpdateFailed"

\* for node in nodes_data: ... if not node_id: continue
\* the rest of the list from the first node whose status is fetched
RECURSIVE NextFetch(_)
NextFetch(nd) ==
    IF nd = << >> THEN << >>
    ELSE IF Head(nd).id # "" THEN nd
    ELSE NextFetch(Tail(nd))

\* the names of the listed nodes that carry no id
NoId(nd) == { nd[i].node_name : i \in { j \in DOMAIN nd : nd[j].id = "" } }

\* every node is stored, whatever its status fetch returned
Usable_Always(status_data) == TRUE

\* if status_data:
Usable(status_data) == status_data.some

\* updated_data[node_id] = node_info
Put(m, k, v) == [x \in DOMAIN m \cup {k} |-> IF x = k THEN v ELSE m[x]]

\* _async_update_data returns or raises: its locals are gone
PollIdle ==
    /\ poll_pc' = "idle"
    /\ nodes_data' = << >>
    /\ updated_data' = EmptyMap

\* the poll raises: the store is not assigned
PollFail(exc) ==
    /\ PollIdle
    /\ poll_exc' = exc
    /\ poll_result' = ExceptHandler(exc)
    /\ poll_seen' = NoSeen
    /\ data' = data

\* the commanded value of a patch, written into a device record
Reapply(device_data, pp) ==
    CASE pp.kind = "power" -> [device_data EXCEPT !.power = pp.power]
      [] pp.kind = "led_power" -> [device_data EXCEPT !.led_power = pp.led_power]
      [] pp.kind = "led_color" -> [device_data EXCEPT !.led_color = pp.led_color]
      [] pp.kind = "led_brightness" ->
           [device_data EXCEPT !.led_brightness = pp.led_brightness]
      [] OTHER -> [device_data EXCEPT !.refill_life = pp.refill_life]

\* a replace that carries a patch made during the poll over into the new map
PollReplace_KeepPatch(upd) ==
    /\ PollIdle
    /\ poll_exc' = poll_exc
    /\ poll_result' = "ok"
    /\ data' = IF /\ poll_patch.some
                  /\ poll_patch.node \in DOMAIN upd
                  /\ poll_patch.device \in DOMAIN upd[poll_patch.node].devices
               THEN [upd EXCEPT ![poll_patch.node].devices[poll_patch.device] =
                                    Reapply(@, poll_patch)]
               ELSE upd

\* a replace that keeps the nodes of the old store the poll did not fetch
PollReplace_Merge(upd) ==
    /\ PollIdle
    /\ poll_exc' = poll_exc
    /\ poll_result' = "ok"
    /\ data' = upd @@ data

\* self.nodes = updated_data; return updated_data (the base class assigns
\* the returned map to self.data)
PollReplace(upd) ==
    /\ PollIdle
    /\ poll_exc' = poll_exc
    /\ poll_result' = "ok"
    /\ data' = upd

\* a loop that publishes the map it is building after every node
PollContinue_Publish(nd, upd) ==
    LET rest == NextFetch(nd)
    IN  IF rest = << >> THEN PollReplace(upd)
        ELSE /\ poll_pc' = "node"
             /\ nodes_data' = rest
             /\ updated_data' = upd
             /\ data' = upd
             /\ UNCHANGED <<poll_result, poll_exc>>

\* continue the loop over nd with the map built so far
PollContinue(nd, upd) ==
    LET rest == NextFetch(nd)
    IN  IF rest = << >> THEN PollReplace(upd)
        ELSE /\ poll_pc' = "node"
             /\ nodes_data' = rest
             /\ updated_data' = upd
             /\ UNCHANGED <<poll_result, poll_exc, data>>

\* def get_node_data: self.data.get(node_id) if self.data else None
\* (the set of the value returned, empty for None)
get_node_data(store, node_id) ==
    IF store # EmptyMap /\ node_id \in DOMAIN store
    THEN {store[node_id]} ELSE {}

\* def get_device_data: node_data.get("devices", {}).get(device_name)
get_device_data(store, node_id, device_name) ==
    { node_data.devices[device_name] :
        node_data \in { nd \in get_node_data(store, node_id) :
                          device_name \in DOMAIN nd.devices } }

\* def is_node_online: node_data.get("online", False) if node_data else False
is_node_online(store, node_id) ==
    \E node_data \in get_node_data(store, node_id) : node_data.online

\* the update interval elapses or a requested refresh runs
PollStart ==
    /\ poll_pc = "idle"
    /\ n_polls < MaxPolls
    /\ poll_pc' = "get_user_nodes"
    /\ n_polls' = n_polls + 1
    /\ poll_result' = "none"
    /\ poll_exc' = "none"
    /\ refresh_requested' = FALSE
    /\ poll_patch' = NoPatch
    /\ poll_seen' = NoSeen
    /\ cmd' = [cmd EXCEPT !.in_poll = FALSE]
    /\ UNCHANGED <<api, data, nodes_data, updated_data, cmd_api,
                   cmd_result, cmd_notified, n_cmds, apiVars, conv, light>>

\* nodes_data = await self.api.get_user_nodes() raises
PollGetUserNodesRaises ==
    /\ poll_pc = "get_user_nodes"
    /\ PollFail("ApiError")
    /\ UNCHANGED <<api, n_polls, cmd, cmd_api, cmd_result, cmd_notified,
                   n_cmds, refresh_requested, poll_patch, apiVars, conv, light>>

\* nodes_data = await self.api.get_user_nodes() returns
PollGetUserNodes ==
    /\ poll_pc = "get_user_nodes"
    /\ \E nd \in NodeLists(api) :
          IF nd = << >> THEN PollFail("NoNodes")
          ELSE /\ PollContinue(nd, EmptyMap)
               /\ poll_seen' = [poll_seen EXCEPT !.skipped = NoId(nd)]
    /\ UNCHANGED <<api, n_polls, cmd, cmd_api, cmd_result, cmd_notified,
                   n_cmds, refresh_requested, poll_patch, apiVars, conv, light>>

\* await self.api.get_node_status(node_id) or
\* await self.api.get_node_config(node_id) raises
PollNodeRaises ==
    /\ poll_pc = "node"
    /\ PollFail("ApiError")
    /\ UNCHANGED <<api, n_polls, cmd, cmd_api, cmd_result, cmd_notified,
                   n_cmds, refresh_requested, poll_patch, apiVars, conv, light>>

\* status_data = await self.api.get_node_status(node_id) returns; the call
\* self.api.get_node_config(node_id) follows and raises if the object has
\* no such method, else config_data returns too.  The node's entry is built
\* and the loop goes on to the next node or ends.
PollNodeFetched ==
    /\ poll_pc = "node"
    /\ \E status \in StatusSet :
        \E config \in ConfigReturns(status) :
          LET node == Head(nodes_data)
          IN  IF "get_node_config" \in MissingMethods(api)
              THEN PollFail("AttributeError")
              ELSE IF Usable(status)
                      /\ HubName \in DOMAIN node.params
                      /\ node.params[HubName].malformed
              THEN PollFail("TypeError")
              ELSE /\ IF Usable(status)
                      THEN PollContinue(Tail(nodes_data),
                               Put(updated_data, node.id,
                                   NodeInfo(node, status, config)))
                      ELSE PollContinue(Tail(nodes_data), updated_data)
                   /\ poll_seen' =
                        IF status.some
                        THEN [poll_seen EXCEPT !.fetched =
                                 @ \cup {<<node, status, config>>}]
                        ELSE [poll_seen EXCEPT !.skipped =
                                 @ \cup {node.node_name}]
    /\ UNCHANGED <<api, n_polls, cmd, cmd_api, cmd_result, cmd_notified,
                   n_cmds, refresh_requested, poll_patch, apiVars, conv, light>>

\* --------------------------------------------------------------- commands
Colors == { [r |-> 0, g |-> 0, b |-> 255] }
Levels == {0, 143}
CmdKinds == {"power", "led_power", "led_color", "led_brightness", "refill"}
\* the nodes commands are addressed to: the first node, which is in turn
\* unlisted, without hub block and with one, while the second stands by
CmdTargets == {NodeOrder[1]}

\* the calls a caller may make: the operation, its target and its argument
\* (on: power_on / led_on, rgb: red, green, blue, level: brightness)
CmdInputs ==
    { [kind |-> k, node |-> n, device |-> d, on |-> o, rgb |-> c, level |-> l] :
        k \in CmdKinds, n \in CmdTargets, d \in {HubName}, o \in BOOLEAN,
        c \in Colors \cup {NoColor}, l \in Levels }

\* one call per distinct argument list of its operation
IsCall(c) ==
    /\ c.kind \in {"power", "led_power"} \/ c.on = FALSE
    /\ IF c.kind = "led_color" THEN c.rgb \in Colors ELSE c.rgb = NoColor
    /\ c.kind = "led_brightness" \/ c.level = 0

\* device_data["led_power"] = power_on and brightness > 0
LedPowerAfterPower(power_on, device_data) ==
    power_on /\ device_data.led_brightness > 0

\* device_data["led_power"] = led_on and hub_powered and brightness > 0
LedPowerAfterLedPower(led_on, device_data) ==
    led_on /\ device_data.power /\ device_data.led_brightness > 0

\* the LED state derived from the brightness the record held before
LedPowerAfterBrightness_Stale(brightness, device_data) ==
    device_data.power /\ device_data.led_brightness > 0

\* device_data["led_power"] = hub_powered and brightness > 0
LedPowerAfterBrightness(brightness, device_data) ==
    device_data.power /\ brightness > 0

\* an update that drops the colour and refill writes
PatchDevice_PowerOnly(device_data, c) ==
    IF c.kind = "power"
    THEN [device_data EXCEPT !.power = c.on,
                             !.led_power = LedPowerAfterPower(c.on, device_data)]
    ELSE device_data

\* the in-place update of one device's record
PatchDevice(device_data, c) ==
    CASE c.kind = "power" ->
           [device_data EXCEPT !.power = c.on,
                               !.led_power = LedPowerAfterPower(c.on, device_data)]
      [] c.kind = "led_power" ->
           [device_data EXCEPT !.led_power = LedPowerAfterLedPower(c.on, device_data)]
      [] c.kind = "led_color" ->
           [device_data EXCEPT !.led_color = c.rgb]
      [] c.kind = "led_brightness" ->
           [device_data EXCEPT !.led_brightness = c.level,
                               !.led_brightness_pct = BrightnessPct(c.level),
                               !.led_power = LedPowerAfterBrightness(c.level, device_data)]
      [] OTHER ->
           [device_data EXCEPT !.refill_life = 100]

\* if self.data and node_id in self.data:
\*     device_data = self.data[node_id].get("devices", {}).get(device_name, {})
\* a device that is not in the map yields a fresh dict, which is dropped
HasDevice(store, n, d) == n \in DOMAIN store /\ d \in DOMAIN store[n].devices

\* the update reaches the named device of every node
Patch_EveryNode(store, c) ==
    IF c.node \in DOMAIN store
    THEN [n \in DOMAIN store |->
            IF c.device \in DOMAIN store[n].devices
            THEN [store[n] EXCEPT !.devices[c.device] = PatchDevice(@, c)]
            ELSE store[n]]
    ELSE store

\* an update that stores the fresh dict of a device the node lacks
Patch_CreateDevice(store, c) ==
    IF c.node \in DOMAIN store
    THEN LET devices == store[c.node].devices
             fresh == [ power |-> FALSE, led_power |-> FALSE,
                        led_brightness |-> 0, led_brightness_pct |-> 0,
                        led_color |-> NoColor, refill_life |-> 0,
                        system_status |-> "Unknown", system_status_code |-> 0,
                        error_code |-> 0, last_updated |-> 0 ]
             device_data == IF c.device \in DOMAIN devices
                            THEN devices[c.device] ELSE fresh
         IN  [store EXCEPT ![c.node].devices =
                 Put(devices, c.device, PatchDevice(device_data, c))]
    ELSE store

Patch(store, c) ==
    IF HasDevice(store, c.node, c.device)
    THEN [store EXCEPT ![c.node].devices[c.device] = PatchDevice(@, c)]
    ELSE store

\* await self.async_request_refresh() follows every patch but the refill's
RequestsRefresh(kind) == kind # "refill"

\* the patch is applied whatever the API reported
StoreAfter_Unconditional(store, c, success) == Patch(store, c)

\* the condition inverted: the patch is applied when the API reported failure
StoreAfter_OnFailure(store, c, success) ==
    IF success THEN store ELSE Patch(store, c)

\* if success: <patch>
StoreAfter(store, c, success) == IF success THEN Patch(store, c) ELSE store

\* if success: ... await self.async_request_refresh()
RefreshAfter(kind, success) == success /\ RequestsRefresh(kind)

\* no write operation calls async_update_listeners or
\* async_set_updated_data: the listeners hear of a change when a poll ends
NotifiesListeners(store, c, success) == FALSE

\* return success
CmdReturns(success) == IF success THEN "True" ELSE "False"

\* a caller invokes one of the five operations; the coroutine runs up to
\* its await of self.api.<method>(...), or raises if there is no such method
CmdStart ==
    /\ cmd.pc = "idle"
    /\ n_cmds < MaxCmds
    /\ \E c \in CmdInputs :
          /\ IsCall(c)
          /\ IF c.kind \in MissingMethods(api)
             THEN /\ cmd' = NoCmd
                  /\ cmd_result' = "AttributeError"
             ELSE /\ cmd' = [c @@ NoCmd EXCEPT
                               !.pc = "awaiting",
                               !.in_poll = (poll_pc # "idle")]
                  /\ cmd_result' = "none"
    /\ cmd_api' = "none"
    /\ cmd_notified' = FALSE
    /\ n_cmds' = n_cmds + 1
    /\ UNCHANGED <<api, data, poll_pc, nodes_data, updated_data,
                   poll_result, poll_exc, n_polls,
                   refresh_requested, poll_patch, poll_seen, apiVars, conv, light>>

\* the API call returns success or failure; the rest of the operation runs
\* without a further await up to the refresh request
CmdReturn ==
    /\ cmd.pc = "awaiting"
    /\ \E success \in BOOLEAN :
          /\ cmd_api' = (IF success THEN "success" ELSE "failure")
          /\ cmd_result' = CmdReturns(success)
          /\ data' = StoreAfter(data, cmd, success)
          /\ cmd_notified' = NotifiesListeners(data, cmd, success)
          /\ refresh_requested' =
                (refresh_requested \/ RefreshAfter(cmd.kind, success))
          /\ poll_patch' =
               IF /\ success
                  /\ HasDevice(data, cmd.node, cmd.device)
                  /\ poll_pc # "idle"
                  /\ cmd.in_poll
               THEN LET rec == Patch(data, cmd)[cmd.node].devices[cmd.device]
                    IN  [some |-> TRUE, kind |-> cmd.kind, node |-> cmd.node,
                         device |-> cmd.device, power |-> rec.power,
                         led_power |-> rec.led_power,
                         led_color |-> rec.led_color,
                         led_brightness |-> rec.led_brightness,
                         refill_life |-> rec.refill_life]
               ELSE poll_patch
    /\ cmd' = NoCmd
    /\ UNCHANGED <<api, poll_pc, nodes_data, updated_data,
                   poll_result, poll_exc, n_polls, n_cmds,
                   poll_seen, apiVars, conv, light>>

\* ------------------------------------------------------------- API client
Callers == {"c1", "c2"}

NoReq == [pc |-> "idle", ret |-> "none", attempt |-> 0, headers |-> 0,
          sends |-> 0, resends |-> 0, timeouts |-> 0, auths |-> 0,
          reauths |-> 0, first_reauth |-> "none", tok401 |-> 0,
          login_no |-> 0, last |-> "none", result |-> "none"]

\* what the login endpoint may answer: 200 with both tokens, 200 without
\* "accesstoken", 200 without an "idtoken" that carries the user id, 200
\* with neither, another status, or the POST raises
LoginOutcomes == {"ok", "no_accesstoken", "no_user_id", "neither", "non200",
                  "exception"}

\* self.access_token = auth_data.get("accesstoken")
TokenAfterLogin(outcome, old, k) ==
    CASE outcome \in {"ok", "no_user_id"} -> k
      [] outcome \in {"no_accesstoken", "neither"} -> 0
      [] OTHER -> old

\* if id_token: ... self.user_id = id_payload.get("custom:user_id")
UserIdAfterLogin(outcome, old, k) ==
    CASE outcome \in {"ok", "no_accesstoken"} -> k
      [] OTHER -> old

\* return self.access_token is not None and self.user_id is not None
\* (False on every other path)
AuthReturn(outcome, token, uid) ==
    IF outcome \in {"non200", "exception"} THEN FALSE
    ELSE token # 0 /\ uid # 0

\* a loop that runs one iteration more
HasAttempt_OneMore(attempt) == attempt < RETRY_ATTEMPTS + 1

\* for attempt in range(RETRY_ATTEMPTS): is there an iteration attempt?
HasAttempt(attempt) == attempt < RETRY_ATTEMPTS

\* giving up one attempt early
LastAttempt_Early(attempt) == attempt = RETRY_ATTEMPTS - 2

\* if attempt == RETRY_ATTEMPTS - 1: return None
LastAttempt(attempt) == attempt = RETRY_ATTEMPTS - 1

\* the iteration attempt of the loop sends the request with token
Sent(r, attempt, token) ==
    [r EXCEPT !.pc = "wait_response", !.attempt = attempt,
              !.headers = token, !.sends = @ + 1]

\* the call returns
Returned(r, result, last) ==
    [r EXCEPT !.pc = "done", !.result = result, !.last = last]

\* the login is posted without waiting for the lock
AuthEnter_NoLock(c, r) ==
    /\ lock_holder' = c
    /\ lock_waiters' = lock_waiters
    /\ logins' = logins + 1
    /\ req' = [req EXCEPT ![c] = [r EXCEPT !.pc = "login",
                                           !.login_no = logins + 1]]

\* async with self._auth_lock: an uncontended lock is taken at once and
\* the login is posted; otherwise the caller queues
AuthEnter(c, r) ==
    IF lock_holder = "none" /\ lock_waiters = << >>
    THEN /\ lock_holder' = c
         /\ lock_waiters' = lock_waiters
         /\ logins' = logins + 1
         /\ req' = [req EXCEPT ![c] = [r EXCEPT !.pc = "login",
                                                !.login_no = logins + 1]]
    ELSE /\ lock_holder' = lock_holder
         /\ lock_waiters' = Append(lock_waiters, c)
         /\ logins' = logins
         /\ req' = [req EXCEPT ![c] = [r EXCEPT !.pc = "lock_wait"]]

\* a caller invokes authenticate() itself
AuthStart(c) ==
    /\ req[c].pc \in {"idle", "done"}
    /\ n_calls < MaxCalls
    /\ n_calls' = n_calls + 1
    /\ AuthEnter(c, [NoReq EXCEPT !.ret = "direct", !.auths = 1])
    /\ UNCHANGED <<access_token, user_id, good_tokens, coordVars, conv, light>>

\* a caller invokes _make_request: without a token it authenticates first
RequestStart(c) ==
    /\ req[c].pc \in {"idle", "done"}
    /\ n_calls < MaxCalls
    /\ n_calls' = n_calls + 1
    /\ IF access_token = 0
       THEN AuthEnter(c, [NoReq EXCEPT !.ret = "init", !.auths = 1])
       ELSE /\ req' = [req EXCEPT ![c] = Sent(NoReq, 0, access_token)]
            /\ UNCHANGED <<lock_holder, lock_waiters, logins>>
    /\ UNCHANGED <<access_token, user_id, good_tokens, coordVars, conv, light>>

\* the lock is released and c is the first waiter
LockAcquire(c) ==
    /\ req[c].pc = "lock_wait"
    /\ lock_holder = "none"
    /\ lock_waiters # << >>
    /\ Head(lock_waiters) = c
    /\ lock_holder' = c
    /\ lock_waiters' = Tail(lock_waiters)
    /\ logins' = logins + 1
    /\ req' = [req EXCEPT ![c].pc = "login", ![c].login_no = logins + 1]
    /\ UNCHANGED <<access_token, user_id, n_calls, good_tokens, coordVars,
                   conv, light>>

\* where authenticate() returns to inside _make_request
\*   "init": if not await self.authenticate(): return None
\*   "401":  if await self.authenticate(): headers = ...; continue
\*           else: return None
AfterAuth(r, ok, token) ==
    CASE r.ret = "direct" ->
           Returned(r, IF ok THEN "True" ELSE "False", "auth")
      [] r.ret = "init" ->
           IF ok THEN Sent(r, 0, token)
           ELSE Returned(r, "None", "auth_fail")
      [] OTHER ->
           LET r1 == [r EXCEPT !.first_reauth =
                          IF @ = "none" THEN (IF ok THEN "ok" ELSE "fail") ELSE @]
           IN  IF ~ok THEN Returned(r1, "None", "reauth_fail")
               ELSE IF HasAttempt(r.attempt + 1)
               THEN [Sent(r1, r.attempt + 1, token) EXCEPT
                        !.resends = @ + 1, !.last = "reauth_ok"]
               ELSE Returned(r1, "None", "reauth_ok")

\* a login that keeps the lock when the POST raises
LoginResponse_KeepLock(c) ==
    /\ req[c].pc = "login"
    /\ \E outcome \in LoginOutcomes :
          LET token == TokenAfterLogin(outcome, access_token, logins)
              uid == UserIdAfterLogin(outcome, user_id, logins)
          IN  /\ access_token' = token
              /\ user_id' = uid
              /\ good_tokens' = IF AuthReturn(outcome, token, uid)
                                 THEN good_tokens \cup {token}
                                 ELSE good_tokens
              /\ req' = [req EXCEPT ![c] =
                            AfterAuth(req[c], AuthReturn(outcome, token, uid), token)]
              /\ lock_holder' = IF outcome = "exception" THEN c ELSE "none"
    /\ UNCHANGED <<lock_waiters, logins, n_calls, coordVars, conv, light>>

\* the login request of c ends; the lock is released on every path
LoginResponse(c) ==
    /\ req[c].pc = "login"
    /\ \E outcome \in LoginOutcomes :
          LET token == TokenAfterLogin(outcome, access_token, logins)
              uid == UserIdAfterLogin(outcome, user_id, logins)
          IN  /\ access_token' = token
              /\ user_id' = uid
              /\ good_tokens' = IF AuthReturn(outcome, token, uid)
                                 THEN good_tokens \cup {token}
                                 ELSE good_tokens
              /\ req' = [req EXCEPT ![c] =
                            AfterAuth(req[c], AuthReturn(outcome, token, uid), token)]
    /\ lock_holder' = "none"
    /\ UNCHANGED <<lock_waiters, logins, n_calls, coordVars, conv, light>>

\* the data request of c is answered 401: re-authenticate
Response401(c) ==
    /\ req[c].pc = "wait_response"
    /\ AuthEnter(c, [req[c] EXCEPT !.ret = "401", !.reauths = @ + 1,
                                    !.auths = @ + 1,
                                    !.tok401 = req[c].headers,
                                    !.login_no = 0,
                                    !.last = "401"])
    /\ UNCHANGED <<access_token, user_id, n_calls, good_tokens, coordVars,
                   conv, light>>

\* the data request of c is answered 200, 201 or 204
Response2xx(c) ==
    /\ req[c].pc = "wait_response"
    /\ req' = [req EXCEPT ![c] = Returned(req[c], "response", "2xx")]
    /\ UNCHANGED <<access_token, user_id, lock_holder, lock_waiters, logins,
                   n_calls, good_tokens, coordVars, conv, light>>

\* another status is treated like a timeout: the request is sent again
ResponseError_Retry(c) ==
    /\ req[c].pc = "wait_response"
    /\ \E e \in {"other", "exception"} :
          LET r == [req[c] EXCEPT !.last = e]
          IN  req' = [req EXCEPT ![c] =
                         IF LastAttempt(r.attempt)
                         THEN Returned(r, "None", e)
                         ELSE Sent(r, r.attempt + 1, r.headers)]
    /\ UNCHANGED <<access_token, user_id, lock_holder, lock_waiters, logins,
                   n_calls, good_tokens, coordVars, conv, light>>

\* another status, or an exception other than a timeout: return None
ResponseError(c) ==
    /\ req[c].pc = "wait_response"
    /\ \E e \in {"other", "exception"} :
          req' = [req EXCEPT ![c] = Returned(req[c], "None", e)]
    /\ UNCHANGED <<access_token, user_id, lock_holder, lock_waiters, logins,
                   n_calls, good_tokens, coordVars, conv, light>>

\* asyncio.TimeoutError: give up on the last attempt, else send again
ResponseTimeout(c) ==
    /\ req[c].pc = "wait_response"
    /\ LET r == [req[c] EXCEPT !.timeouts = @ + 1, !.last = "timeout"]
       IN  req' = [req EXCEPT ![c] =
                      IF LastAttempt(r.attempt)
                      THEN Returned(r, "None", "timeout")
                      ELSE Sent(r, r.attempt + 1, r.headers)]
    /\ UNCHANGED <<access_token, user_id, lock_holder, lock_waiters, logins,
                   n_calls, good_tokens, coordVars, conv, light>>

\* ------------------------------------------------------------ conversions
\* the colour components tried
Components == {0, 128, HostMax}

NoConv == [path |-> "none", step |-> 0, in |-> 0, rgb_in |-> NoColor,
           pct |-> 0, host |-> 0, hue |-> 0, rgb_out |-> NoColor]

\* the values that enter the conversions: a vendor percent that a poll
\* reports, a host brightness or a colour that a command is given
ConvInputs ==
    { [NoConv EXCEPT !.path = "percent", !.in = p, !.pct = p] : p \in 0..PctMax }
    \cup { [NoConv EXCEPT !.path = "host", !.in = b, !.host = b] : b \in 0..HostMax }
    \cup { [NoConv EXCEPT !.path = "colour", !.rgb_in = [r |-> x, g |-> y, b |-> z]] :
              x \in Components, y \in Components, z \in Components }

\* the poll normalizes the vendor percent: led_brightness and
\* led_brightness_pct of the record
ConvNormalize ==
    /\ \/ conv.path = "percent" /\ conv.step = 0
       \/ conv.path = "host" /\ conv.step = 1
    /\ conv' = [conv EXCEPT !.host = HaBrightness(conv.pct), !.step = @ + 1]
    /\ UNCHANGED <<coordVars, apiVars, light>>

\* the brightness command derives the vendor percent from the host value
ConvToPercent ==
    /\ \/ conv.path = "host" /\ conv.step = 0
       \/ conv.path = "percent" /\ conv.step = 1
    /\ conv' = [conv EXCEPT !.pct = BrightnessPct(conv.host), !.step = @ + 1]
    /\ UNCHANGED <<coordVars, apiVars, light>>

\* set_device_led_color derives "LED Hue" and "LED Brightness"
ConvSetColor ==
    /\ conv.path = "colour" /\ conv.step = 0
    /\ conv' = [conv EXCEPT !.hue = RgbToHue(conv.rgb_in),
                            !.pct = RgbToBrightness(conv.rgb_in),
                            !.step = 1]
    /\ UNCHANGED <<coordVars, apiVars, light>>

\* the poll normalizes the hue and brightness it is told into led_color
ConvNormalizeColor ==
    /\ conv.path = "colour" /\ conv.step = 1
    /\ conv' = [conv EXCEPT !.rgb_out = HsvToRgb(conv.hue, conv.pct),
                            !.step = 2]
    /\ UNCHANGED <<coordVars, apiVars, light>>

\* ----------------------------------------------------------- light entity
\* the colours async_turn_on may be given as ATTR_RGB_COLOR
LightColors ==
    { [r |-> x, g |-> y, b |-> z] :
        x \in Components, y \in Components, z \in Components }

NoRecord == [ power |-> FALSE, led_power |-> FALSE, led_brightness |-> 0,
              led_brightness_pct |-> 0, led_color |-> NoColor,
              refill_life |-> 0, system_status |-> "Unknown",
              system_status_code |-> 0, error_code |-> 0, last_updated |-> 0 ]

\* op: the entity method called; has_rgb, rgb: its ATTR_RGB_COLOR argument;
\* led_on: the argument of the LED power command; calls: the coordinator
\* commands issued so far; hue, bright: the vendor's "LED Hue" and
\* "LED Brightness"; record: the device's record in the store;
\* refreshes: the calls of async_request_refresh
NoLight == [pc |-> "idle", op |-> "none", has_rgb |-> FALSE, rgb |-> NoColor,
            led_on |-> FALSE, calls |-> << >>,
            color_result |-> "none", power_result |-> "none",
            hue |-> 0, bright |-> 0, record |-> NoRecord, refreshes |-> 0]

\* the entity exists for a device of the store: its record is what a poll
\* normalized from the parameters the vendor holds
LightInputs ==
    { [NoLight EXCEPT !.hue = h.hue, !.bright = h.bright,
                      !.record = DeviceRecord(h, st)] :
        h \in WellFormed, st \in { x \in StatusSet : x.some } }

\* set_device_led_color: params = {"LIV Hub": {"LED Hue": hue,
\*                                             "LED Brightness": brightness}}
LedColorParams(c) == [hue |-> RgbToHue(c), bright |-> RgbToBrightness(c)]

\* the LED switched by a flag that is written as the brightness
LedPowerBrightness_Flag(led_on) == IF led_on THEN 1 ELSE 0

\* set_device_led_power: brightness = 100 if led_on else 0
LedPowerBrightness(led_on) == IF led_on THEN 100 ELSE 0

\* the command a coordinator operation of the entity stands for
LightCmd(kind, l) ==
    [NoCmd EXCEPT !.kind = kind, !.device = HubName, !.on = l.led_on,
                  !.rgb = l.rgb]

\* async_turn_on(**kwargs): with ATTR_RGB_COLOR the colour command is
\* awaited first, else the LED power command with True
LightTurnOn ==
    /\ light.pc = "idle"
    /\ \/ \E c \in LightColors :
            light' = [light EXCEPT !.pc = "led_color", !.op = "turn_on",
                                   !.has_rgb = TRUE, !.rgb = c,
                                   !.calls = <<"led_color">>]
       \/ light' = [light EXCEPT !.pc = "led_power", !.op = "turn_on",
                                 !.led_on = TRUE,
                                 !.calls = <<"led_power">>]
    /\ UNCHANGED <<coordVars, apiVars, conv>>

\* async_turn_off(**kwargs): the LED power command with False
LightTurnOff ==
    /\ light.pc = "idle"
    /\ light' = [light EXCEPT !.pc = "led_power", !.op = "turn_off",
                              !.led_on = FALSE,
                              !.calls = <<"led_power">>]
    /\ UNCHANGED <<coordVars, apiVars, conv>>

\* a colour command that failed ends async_turn_on
LightColorReturn_StopOnFailure ==
    /\ light.pc = "led_color"
    /\ \E success \in BOOLEAN :
          LET p == LedColorParams(light.rgb)
              c == LightCmd("led_color", light)
          IN  light' =
                IF success
                THEN [light EXCEPT
                        !.pc = "led_power", !.led_on = TRUE,
                        !.calls = Append(@, "led_power"),
                        !.color_result = CmdReturns(success),
                        !.hue = p.hue, !.bright = p.bright,
                        !.record = PatchDevice(@, c),
                        !.refreshes = @ + 1]
                ELSE [light EXCEPT !.pc = "done",
                                   !.color_result = CmdReturns(success)]
    /\ UNCHANGED <<coordVars, apiVars, conv>>

\* await self.coordinator.async_set_device_led_color(...) returns: on
\* success the vendor holds the hue and brightness written, the record is
\* patched and a refresh requested; the result is not looked at and the
\* LED power command with True is awaited
LightColorReturn ==
    /\ light.pc = "led_color"
    /\ \E success \in BOOLEAN :
          LET p == LedColorParams(light.rgb)
              c == LightCmd("led_color", light)
          IN  light' =
                [light EXCEPT
                   !.pc = "led_power", !.led_on = TRUE,
                   !.calls = Append(@, "led_power"),
                   !.color_result = CmdReturns(success),
                   !.hue = IF success THEN p.hue ELSE @,
                   !.bright = IF success THEN p.bright ELSE @,
                   !.record = IF success THEN PatchDevice(@, c) ELSE @,
                   !.refreshes = IF RefreshAfter("led_color", success)
                                 THEN @ + 1 ELSE @]
    /\ UNCHANGED <<coordVars, apiVars, conv>>

\* success = await self.coordinator.async_set_device_led_power(...)
\* returns: on success the vendor holds the brightness written, the record
\* is patched, the coordinator requests a refresh and so does the entity
LightLedPowerReturn ==
    /\ light.pc = "led_power"
    /\ \E success \in BOOLEAN :
          LET c == LightCmd("led_power", light)
          IN  light' =
                [light EXCEPT
                   !.pc = "done",
                   !.power_result = CmdReturns(success),
                   !.bright = IF success THEN LedPowerBrightness(light.led_on)
                              ELSE @,
                   !.record = IF success THEN PatchDevice(@, c) ELSE @,
                   !.refreshes = IF RefreshAfter("led_power", success)
                                 THEN @ + 2 ELSE @]
    /\ UNCHANGED <<coordVars, apiVars, conv>>

\* ---------------------------------------------------------- specification
\* self.api is the client of api.py or, as in the tests, a mock object
\* that answers every method the coordinator calls
ApiClasses == {"ThermacellLivAPI", "AsyncMock"}

\* the coordinator and the client as constructed
InitProgram ==
    /\ api \in ApiClasses
    /\ data = EmptyMap
    /\ poll_pc = "idle"
    /\ nodes_data = << >>
    /\ updated_data = EmptyMap
    /\ poll_result = "none"
    /\ poll_exc = "none"
    /\ n_polls = 0
    /\ cmd = NoCmd
    /\ cmd_api = "none"
    /\ cmd_result = "none"
    /\ cmd_notified = FALSE
    /\ n_cmds = 0
    /\ refresh_requested = FALSE
    /\ poll_patch = NoPatch
    /\ poll_seen = NoSeen
    /\ access_token = 0
    /\ user_id = 0
    /\ lock_holder = "none"
    /\ lock_waiters = << >>
    /\ logins = 0
    /\ n_calls = 0
    /\ good_tokens = {}
    /\ req = [c \in Callers |-> NoReq]

Init == InitProgram /\ conv = NoConv /\ light = NoLight

Next ==
    \/ PollStart
    \/ PollGetUserNodesRaises
    \/ PollGetUserNodes
    \/ PollNodeRaises
    \/ PollNodeFetched
    \/ CmdStart
    \/ CmdReturn

NextApi ==
    \E c \in Callers :
        \/ AuthStart(c)
        \/ RequestStart(c)
        \/ LockAcquire(c)
        \/ LoginResponse(c)
        \/ Response401(c)
        \/ Response2xx(c)
        \/ ResponseError(c)
        \/ ResponseTimeout(c)

vars == <<coordVars, apiVars, conv, light>>

Spec == Init /\ [][Next]_vars

\* the API client on its own
InitApi == Init /\ api = "ThermacellLivAPI"

SpecApi == InitApi /\ [][NextApi]_vars

\* the event loop runs every task that is ready: a caller that can take
\* the lock takes it, and a login exchange ends, by its answer or by the
\* ClientTimeout of API_TIMEOUT seconds
FairAuth ==
    \A c \in Callers : WF_vars(LockAcquire(c)) /\ WF_vars(LoginResponse(c))

\* the paths through authenticate(): direct calls, the call of a request
\* that holds no token, and the call a 401 answer leads to; timeouts and
\* other failures of a data request never enter authenticate()
NextAuth ==
    \E c \in Callers :
        \/ AuthStart(c)
        \/ RequestStart(c)
        \/ LockAcquire(c)
        \/ LoginResponse(c)
        \/ Response401(c)
        \/ Response2xx(c)

SpecAuthFair == InitApi /\ [][NextAuth]_vars /\ FairAuth

\* the conversions on their own, for every input
NextConv ==
    \/ ConvNormalize
    \/ ConvToPercent
    \/ ConvSetColor
    \/ ConvNormalizeColor

InitConv ==
    InitProgram /\ api = "AsyncMock" /\ conv \in ConvInputs /\ light = NoLight

SpecConv == InitConv /\ [][NextConv]_vars

\* the light entity on its own, for every record and colour
NextLight ==
    \/ LightTurnOn
    \/ LightTurnOff
    \/ LightColorReturn
    \/ LightLedPowerReturn

InitLight ==
    /\ InitProgram
    /\ api = "ThermacellLivAPI"
    /\ conv = NoConv
    /\ light \in LightInputs

SpecLight == InitLight /\ [][NextLight]_vars

\* ------------------------------------------------------------ properties
\* the (node, device) pairs of a store
Pairs(store) ==
    UNION { { <<n, d>> : d \in DOMAIN store[n].devices } : n \in DOMAIN store }

Device(store, p) == store[p[1]].devices[p[2]]

\* the step in which a command's API call returns and the command ends
CmdReturnStep == cmd.pc = "awaiting" /\ cmd'.pc = "idle"

\* a step of the poll
PollStep ==
    /\ poll_pc # "idle"
    /\ <<poll_pc, nodes_data, updated_data>>' # <<poll_pc, nodes_data, updated_data>>

\* the step in which a poll ends by assigning the store
ReplaceStep == poll_pc # "idle" /\ poll_pc' = "idle" /\ poll_result' = "ok"

\* C1: whether its API call succeeds or fails, the store update of a write
\* command addressed to (n, d) leaves every field of every other
\* (node, device) pair as it was.
C1_Isolation ==
    [][CmdReturnStep =>
         \A p \in Pairs(data) :
            p # <<cmd.node, cmd.device>> =>
               p \in Pairs(data') /\ Device(data', p) = Device(data, p)]_vars

\* a command has patched a device while the store held two pairs
C1_Witness ==
    /\ cmd_result = "True"
    /\ poll_patch.some
    /\ poll_pc # "idle"
    /\ Cardinality(Pairs(data)) >= 2

\* C2: when the API call of a write command reports failure, the command
\* returns False and the whole store is what it was before.
C2_FailureUntouched ==
    [][(CmdReturnStep /\ cmd_api' = "failure") =>
         (cmd_result' = "False" /\ data' = data)]_vars

\* a command has failed on a store that holds devices
C2_Witness ==
    /\ cmd_api = "failure"
    /\ cmd_result = "False"
    /\ Pairs(data) # {}

\* C3: every device record of every reachable store has
\* led_power = (power and led_brightness > 0).
C3_DerivedField ==
    \A p \in Pairs(data) :
       Device(data, p).led_power =
          (Device(data, p).power /\ Device(data, p).led_brightness > 0)

\* C4: with self.api the client of api.py, a poll fails only when the node
\* list is empty, an API call raises or a vendor field is malformed; a poll
\* whose node has an id and whose status fetch returns ends without
\* UpdateFailed.
C4_PollCanSucceed ==
    (api = "ThermacellLivAPI" /\ poll_pc = "idle" /\ n_polls > 0) =>
       (poll_result = "ok" \/ poll_exc \in {"NoNodes", "ApiError", "TypeError"})

\* C5: a poll that fails raises UpdateFailed and nothing else, and no step
\* of a poll other than its final assignment changes the store.
C5_PollFailure ==
    [][(PollStep /\ ~ReplaceStep) =>
         /\ data' = data
         /\ poll_pc' = "idle" => poll_result' = "UpdateFailed"]_vars

\* a poll has failed and the store still holds the previous poll's nodes
C5_Witness ==
    /\ poll_pc = "idle"
    /\ poll_result = "UpdateFailed"
    /\ DOMAIN data # {}

\* the store shows the commanded value of patch pp
ShowsPatch(store, pp) ==
    /\ HasDevice(store, pp.node, pp.device)
    /\ LET r == store[pp.node].devices[pp.device]
       IN  CASE pp.kind = "power" -> r.power = pp.power
             [] pp.kind = "led_power" -> r.led_power = pp.led_power
             [] pp.kind = "led_color" -> r.led_color = pp.led_color
             [] pp.kind = "led_brightness" -> r.led_brightness = pp.led_brightness
             [] OTHER -> r.refill_life = pp.refill_life

\* C6 as claimed: when a command started and patched device D during a
\* poll, the store after that poll's replace still shows the commanded
\* value.
C6_NoLostPatch ==
    [][(ReplaceStep /\ poll_patch.some) => ShowsPatch(data', poll_patch)]_vars

\* the node record the replace leaves for the patched device comes from
\* the poll's own responses, not from the store
FetchedWins ==
    LET n == poll_patch.node
    IN  IF n \in DOMAIN updated_data
        THEN n \in DOMAIN data' /\ data'[n] = updated_data[n]
        ELSE n \in DOMAIN data' =>
               /\ Head(nodes_data).id = n
               /\ \E status \in StatusSet :
                  \E config \in ConfigReturns(status) :
                     data'[n] = NodeInfo(Head(nodes_data), status, config)

\* C6 as amended: the patch of a command that started and returned during
\* a poll is visible until that poll's replace; the replace installs the
\* record the poll built from the responses it fetched, whatever the patch.
C6_LastWriteWins ==
    /\ [](poll_patch.some /\ poll_pc # "idle" => ShowsPatch(data, poll_patch))
    /\ [][(ReplaceStep /\ poll_patch.some) => FetchedWins]_vars

\* a replace has overwritten the patch made during the poll
C6_Witness ==
    /\ poll_pc = "idle"
    /\ poll_result = "ok"
    /\ poll_patch.some
    /\ ~ShowsPatch(data, poll_patch)

\* C7: a _make_request call that received 401 has invoked authenticate()
\* exactly once for it and has re-sent the request exactly once (not at
\* all if that authentication failed).
C7_OneReauth ==
    \A c \in Callers :
       (req[c].pc = "done" /\ req[c].reauths > 0) =>
          /\ req[c].reauths = 1
          /\ req[c].resends = (IF req[c].first_reauth = "ok" THEN 1 ELSE 0)

\* C8: after a 401 and a successful re-authentication the request is in
\* flight again with the new token, whichever attempt the 401 came on;
\* after a failed re-authentication the call has returned failure.
C8_ResendAfterReauth ==
    \A c \in Callers :
       /\ req[c].last = "reauth_ok" =>
             /\ req[c].pc = "wait_response"
             /\ req[c].headers # 0
             /\ req[c].headers # req[c].tok401
       /\ req[c].last = "reauth_fail" =>
             (req[c].pc = "done" /\ req[c].result = "None")

\* C9: a call whose every attempt timed out has sent the request exactly 3
\* times and returned None; a call that got 2xx after k < 3 timeouts has
\* returned the response after k + 1 sends.
C9_TimeoutRetry ==
    \A c \in Callers :
       (req[c].pc = "done" /\ req[c].reauths = 0) =>
          /\ req[c].last = "timeout" =>
                (req[c].sends = 3 /\ req[c].timeouts = 3 /\ req[c].result = "None")
          /\ req[c].last = "2xx" =>
                /\ req[c].result = "response"
                /\ req[c].timeouts < 3
                /\ req[c].sends = req[c].timeouts + 1

\* one call has run out of attempts, another got 2xx on its third send
C9_Witness ==
    \E c, d \in Callers :
       /\ req[c].pc = "done" /\ req[c].last = "timeout" /\ req[c].sends = 3
       /\ req[d].pc = "done" /\ req[d].last = "2xx" /\ req[d].timeouts = 2

\* C10: a caller that received 401 and waits for the lock while another
\* caller's login for the same token is under way or done does not post a
\* login of its own: it continues with the outcome of that login.
C10_SharedLogin ==
    [][\A c \in Callers :
          ( /\ req[c].pc = "lock_wait"
            /\ req[c].ret = "401"
            /\ \E d \in Callers \ {c} :
                  /\ req[d].ret = "401"
                  /\ req[d].tok401 = req[c].tok401
                  /\ req[d].login_no # 0 )
          => req[c].pc' # "login"]_vars

\* the callers whose login request (POST /v1/login2) is in flight
InLogin == { c \in Callers : req[c].pc = "login" }

\* C11: whatever mix of authenticate() and _make_request callers share the
\* client, at most one login request is in flight at any time, and it is
\* the lock holder's.
C11_OneLoginInFlight ==
    /\ Cardinality(InLogin) <= 1
    /\ \A c \in InLogin : lock_holder = c

\* one caller's login is in flight while another caller waits for the lock
C11_Witness ==
    \E c, d \in Callers :
       /\ req[c].pc = "login"
       /\ req[d].pc = "lock_wait"
       /\ lock_waiters = <<d>>

\* the step in which the login request of caller c ends and its
\* authenticate() returns
LoginStep(c) == req[c].pc = "login" /\ req'[c].pc # "login"

\* authenticate() returned True to caller c in this step: seen by the
\* direct caller as the result, by _make_request as going on to send
AuthTrue(c) ==
    CASE req[c].ret = "direct" -> req'[c].result = "True"
      [] req[c].ret = "init" -> req'[c].pc = "wait_response"
      [] OTHER -> req'[c].last = "reauth_ok"

\* C12: an authenticate() call that returns False leaves access_token and
\* user_id as they were; one that returns True leaves both taken from its
\* own login response.
C12_AllOrNothing ==
    [][\A c \in Callers :
          LoginStep(c) =>
             IF AuthTrue(c)
             THEN access_token' = req[c].login_no /\ user_id' = req[c].login_no
             ELSE access_token' = access_token /\ user_id' = user_id]_vars

\* C13: authenticate() returns True or False, and True only when the login
\* response was a 200 carrying both the access token and the user id:
\* exactly when both fields now come from this login.
C13_FailureIsFalse ==
    [][\A c \in Callers :
          LoginStep(c) =>
             /\ req[c].ret = "direct" => req'[c].result \in {"True", "False"}
             /\ AuthTrue(c) <=>
                   (access_token' = req[c].login_no /\ user_id' = req[c].login_no)]_vars

\* C14: with self.api the client of api.py, every write operation ends by
\* returning True or False; none ends in an exception.
C14_CommandsNeverRaise ==
    api = "ThermacellLivAPI" => cmd_result \in {"none", "True", "False"}

\* the status text the precedence rules give
ExpectedStatus(online, error, enable, code) ==
    IF ~online THEN "Not Connected"
    ELSE IF error > 0 THEN "Error"
    ELSE IF ~enable \/ code = 1 THEN "Off"
    ELSE IF code = 2 THEN "Warming Up"
    ELSE IF code = 3 THEN "Protected"
    ELSE "Unknown"

\* C15: every device record a poll stores has the system_status the
\* precedence rules give for its node's online flag and its own error
\* code, enable flag and status code.
C15_StatusPrecedence ==
    [][ReplaceStep =>
         \A p \in Pairs(data') :
            Device(data', p).system_status =
               ExpectedStatus(data'[p[1]].online,
                              Device(data', p).error_code,
                              Device(data', p).power,
                              Device(data', p).system_status_code)]_vars

\* C16: a poll never replaces the store by an empty map: when every listed
\* node is skipped the poll fails instead.
C16_ZeroUsableNodes ==
    [][ReplaceStep => DOMAIN data' # {}]_vars

\* C17: a poll in which building one node's record failed on a malformed
\* vendor field does not end in UpdateFailed.
C17_PerNodeDegrade ==
    ~(poll_pc = "idle" /\ poll_exc = "TypeError" /\ poll_result = "UpdateFailed")

\* C20: when a power, LED-colour or refill-reset command succeeds on a
\* device of the store, the record shows the commanded value (power,
\* led_color, refill_life = 100) as the command returns, and only another
\* command or a poll's replace changes the store afterwards.
C20_OptimisticEffect ==
    [][/\ ( /\ CmdReturnStep
            /\ cmd_api' = "success"
            /\ HasDevice(data, cmd.node, cmd.device) )
          => /\ HasDevice(data', cmd.node, cmd.device)
             /\ LET r == data'[cmd.node].devices[cmd.device]
                IN  /\ cmd.kind = "power" => r.power = cmd.on
                    /\ cmd.kind = "led_color" => r.led_color = cmd.rgb
                    /\ cmd.kind = "refill" => r.refill_life = 100
       /\ data' # data => (CmdReturnStep \/ ReplaceStep)]_vars

\* a colour command has succeeded on a device of the store and the store
\* shows the commanded colour, which no poll yields
C20_Witness ==
    /\ cmd_result = "True"
    /\ \E p \in Pairs(data) : Device(data, p).led_color \in Colors

\* the ids of the nodes whose status fetch returned data
FetchedIds(seen) == { t[1].id : t \in seen.fetched }

Normalized(seen) ==
    [n \in FetchedIds(seen) |->
        LET t == CHOOSE u \in seen.fetched : u[1].id = n
        IN  NodeInfo(t[1], t[2], t[3])]

\* C19: the store a successful poll leaves is exactly the map normalized
\* from that poll's vendor answers, whatever the previous store held.
C19_WholesaleReplace ==
    [][ReplaceStep => data' = Normalized(poll_seen')]_vars

\* a second poll has succeeded over a store that a command had patched
\* during it, and the store is the normalized map without the patch
C19_Witness ==
    /\ poll_pc = "idle"
    /\ poll_result = "ok"
    /\ n_polls = 2
    /\ poll_seen.fetched # {}
    /\ poll_patch.some
    /\ data = Normalized(poll_seen)
    /\ ~ShowsPatch(data, poll_patch)

\* the step in which a command's API call reports success for a device
\* that is in the store
PatchStep(kind) ==
    /\ CmdReturnStep
    /\ cmd_api' = "success"
    /\ cmd.kind = kind
    /\ HasDevice(data, cmd.node, cmd.device)

\* C21: after a successful LED power command on a device of the store the
\* record's led_power is the requested led_on, whatever the record held.
C21_LedPowerReflected ==
    [][PatchStep("led_power") =>
         data'[cmd.node].devices[cmd.device].led_power = cmd.on]_vars

\* C22: after a successful brightness command with b on a device of the
\* store, led_brightness is b, led_brightness_pct is the integer part of
\* b * 100 / 255, and every other device's record is as it was.
C22_OptimisticBrightness ==
    [][PatchStep("led_brightness") =>
         LET r == data'[cmd.node].devices[cmd.device]
         IN  /\ r.led_brightness = cmd.level
             /\ r.led_brightness_pct * 255 <= cmd.level * 100
             /\ cmd.level * 100 < (r.led_brightness_pct + 1) * 255
             /\ \A p \in Pairs(data) \ {<<cmd.node, cmd.device>>} :
                   p \in Pairs(data') /\ Device(data', p) = Device(data, p)]_vars

\* a brightness command with a level between two percent steps has
\* succeeded on one of two devices
C22_Witness ==
    /\ cmd_result = "True"
    /\ Cardinality(Pairs(data)) >= 2
    /\ \E p \in Pairs(data) :
          /\ Device(data, p).led_brightness = 143
          /\ Device(data, p).led_brightness_pct = 56

\* C23: a command that patches a device of the store notifies the update
\* listeners itself; a command whose node is not in the store does not.
C23_ListenersNotified ==
    [][CmdReturnStep =>
         /\ (cmd_api' = "success" /\ HasDevice(data, cmd.node, cmd.device))
               => cmd_notified'
         /\ cmd.node \notin DOMAIN data => ~cmd_notified']_vars

\* C24: each of the five write operations requests a refresh when the API
\* reports success, and none does when it reports failure.
C24_RefreshOnSuccessOnly ==
    [][CmdReturnStep =>
         /\ cmd_api' = "success" => refresh_requested'
         /\ cmd_api' = "failure" => refresh_requested' = refresh_requested]_vars

\* the distance of two numbers
Dist(x, y) == IF x >= y THEN x - y ELSE y - x

\* C26: a vendor percent p in 0..100, converted to the host scale as the
\* poll does and back to percent as the brightness command does, comes
\* back within 1 of p.
C26_PercentRoundTrip ==
    (conv.path = "percent" /\ conv.step = 2) => Dist(conv.pct, conv.in) <= 1

\* a percent has gone both ways and come back one lower
C26_Witness ==
    /\ conv.path = "percent"
    /\ conv.step = 2
    /\ conv.in = 56
    /\ conv.host = 142
    /\ conv.pct = 55

\* C27: a host brightness b in 0..255, sent as the vendor percent the
\* brightness command derives and polled back, is stored within 1 of b.
C27_HostRoundTrip ==
    (conv.path = "host" /\ conv.step = 2) => Dist(conv.host, conv.in) <= 1

\* C28: a polled percent p in 0..100 is stored as led_brightness =
\* p * 255 / 100 rounded to the nearest integer, halves away from zero,
\* and as led_brightness_pct = p.
C28_RoundToNearest ==
    (conv.path = "percent" /\ conv.step = 1) =>
       /\ conv.host = (2 * conv.in * HostMax + PctMax) \div (2 * PctMax)
       /\ conv.pct = conv.in

\* C29: a colour sent with set_device_led_color and polled back as the hue
\* and brightness it was sent as is stored with every component within 1
\* of the colour set.
C29_ColourRoundTrip ==
    (conv.path = "colour" /\ conv.step = 2) =>
       /\ Dist(conv.rgb_out.r, conv.rgb_in.r) <= 1
       /\ Dist(conv.rgb_out.g, conv.rgb_in.g) <= 1
       /\ Dist(conv.rgb_out.b, conv.rgb_in.b) <= 1

\* C30: every data request carries a non-null access token that an
\* authenticate() call returning True has set; a call that starts without
\* a token authenticates once before it sends anything, and if that
\* authentication fails it returns failure having sent nothing.
C30_AuthenticatedRequests ==
    \A c \in Callers :
       /\ req[c].sends > 0 =>
             (req[c].headers # 0 /\ req[c].headers \in good_tokens)
       /\ (req[c].ret = "init" /\ req[c].sends > 0) => req[c].login_no # 0
       /\ req[c].last = "auth_fail" =>
             (req[c].pc = "done" /\ req[c].sends = 0 /\ req[c].result = "None")

\* C31: a response whose status is neither 401 nor 200, 201 or 204 ends
\* the call with failure at once: no further send, no authentication.
C31_OtherErrorsNotRetried ==
    [][\A c \in Callers :
          (req[c].pc = "wait_response" /\ req'[c].last = "other") =>
             /\ req'[c].pc = "done"
             /\ req'[c].result = "None"
             /\ req'[c].sends = req[c].sends
             /\ req'[c].auths = req[c].auths
             /\ logins' = logins]_vars

\* a call has ended on such a status after its only send
C31_Witness ==
    \E c \in Callers :
       /\ req[c].pc = "done"
       /\ req[c].last = "other"
       /\ req[c].sends = 1
       /\ req[c].result = "None"

\* C37: a _make_request call sends the request at most 3 times and invokes
\* authenticate() at most 4 times, one when it starts without a token and
\* at most one per 401, and a call that has used them up has returned.
C37_BoundedRequest ==
    \A c \in Callers :
       /\ req[c].sends <= RETRY_ATTEMPTS
       /\ req[c].auths <= RETRY_ATTEMPTS + 1
       /\ req[c].reauths <= req[c].sends
       /\ req[c].auths <= req[c].reauths + 1
       /\ req[c].pc \in {"wait_response", "lock_wait", "login"} =>
             req[c].attempt < RETRY_ATTEMPTS

\* a call that started without a token and got 401 on each of its three
\* sends has returned after four authentications
C37_Witness ==
    \E c \in Callers :
       /\ req[c].pc = "done"
       /\ req[c].sends = 3
       /\ req[c].auths = 4

\* C32: a command whose node or device is not in the store returns the
\* result of its API call and leaves the store as it was; no command adds
\* or removes a node or a device: the keys of the store change only in the
\* assignment that ends a poll.
C32_UnknownTargets ==
    [][/\ CmdReturnStep =>
            /\ DOMAIN data' = DOMAIN data
            /\ Pairs(data') = Pairs(data)
            /\ ~HasDevice(data, cmd.node, cmd.device) =>
                  /\ data' = data
                  /\ cmd_result' = CmdReturns(cmd_api' = "success")
       /\ (DOMAIN data' # DOMAIN data \/ Pairs(data') # Pairs(data)) =>
             ReplaceStep]_vars

\* since the first poll began a command has returned True, and neither the
\* empty store of before that poll nor the store it left holds the device
C32_Witness ==
    /\ cmd_result = "True"
    /\ refresh_requested
    /\ n_polls = 1
    /\ poll_pc = "idle"
    /\ poll_result = "ok"
    /\ DOMAIN data # {}
    /\ \A n \in CmdTargets : ~HasDevice(data, n, HubName)

C35_DerivedFieldKept ==
    [][(C3_DerivedField /\ ~(CmdReturnStep /\ cmd.kind = "led_power")) =>
         C3_DerivedField']_vars

\* a brightness command has succeeded with level 0 on a powered device:
\* the LED is off and the relation holds
C35_Witness ==
    /\ cmd_result = "True"
    /\ C3_DerivedField
    /\ \E p \in Pairs(data) :
          /\ Device(data, p).power
          /\ Device(data, p).led_brightness = 0
          /\ Device(data, p).led_brightness_pct = 0
          /\ ~Device(data, p).led_power

\* what the three readers return for every node
Reads(store) ==
    [n \in NodeIds |->
        <<get_node_data(store, n), get_device_data(store, n, HubName),
          is_node_online(store, n)>>]

\* C36: from the start of a poll to its end the readers return what they
\* returned before it, commands apart; the store changes in the single
\* assignment that ends a successful poll, after which the readers return
\* the entry of every node the poll fetched.
C36_PollSnapshot ==
    [][/\ ((poll_pc # "idle" \/ poll_pc' # "idle")
             /\ ~ReplaceStep /\ ~CmdReturnStep) =>
            Reads(data') = Reads(data)
       /\ ReplaceStep =>
            \A t \in poll_seen'.fetched :
               get_node_data(data', t[1].id) = {NodeInfo(t[1], t[2], t[3])}]_vars

\* a poll is under way whose partial map differs from the store the
\* readers see
C36_Witness ==
    /\ poll_pc = "node"
    /\ updated_data # EmptyMap
    /\ DOMAIN data # {}
    /\ Reads(updated_data) # Reads(data)

\* C38: every caller that waits for the authentication lock or holds it
\* eventually leaves authenticate(), that is, each caller is again and
\* again outside it; the step that ends a login releases the lock, and the
\* holder of the lock is never among its waiters.
C38_LockLiveness ==
    /\ \A c \in Callers : []<>(req[c].pc \notin {"lock_wait", "login"})
    /\ [][\A c \in Callers : LoginStep(c) => lock_holder' = "none"]_vars
    /\ [](\A i \in DOMAIN lock_waiters : lock_waiters[i] # lock_holder)

\* one caller holds the lock in its login while the other waits for it
C38_Witness ==
    \E c, w \in Callers :
       /\ c # w
       /\ lock_holder = c
       /\ req[c].pc = "login"
       /\ req[w].pc = "lock_wait"
       /\ lock_waiters = <<w>>

\* C34: a successful LED power command writes "LED Brightness" 100 (on) or
\* 0 (off) to the vendor, and in the record changes led_power alone:
\* led_brightness, led_brightness_pct and led_color keep the values they
\* had before the command.
C34_LedPowerFrame ==
    [][(light.pc = "led_power" /\ light'.power_result = "True") =>
         /\ light'.bright = (IF light.led_on THEN 100 ELSE 0)
         /\ light'.hue = light.hue
         /\ light'.record =
               [light.record EXCEPT
                  !.led_power = (light.led_on /\ light.record.power
                                 /\ light.record.led_brightness > 0)]
         /\ light'.record.led_brightness = light.record.led_brightness
         /\ light'.record.led_brightness_pct = light.record.led_brightness_pct
         /\ light'.record.led_color = light.record.led_color]_vars

\* the light was turned off: the vendor holds brightness 0 while the record
\* still shows the brightness of the last poll
C34_Witness ==
    /\ light.pc = "done"
    /\ light.op = "turn_off"
    /\ light.power_result = "True"
    /\ light.bright = 0
    /\ light.record.led_brightness_pct > 0
    /\ light.record.led_brightness > 0
    /\ ~light.record.led_power

\* C39: async_turn_on with a colour issues the colour command first and,
\* whatever that returned, the LED power command with True next and
\* nothing else; when both succeeded the vendor holds the hue of the
\* colour and brightness 100, whatever the colour's value component.
C39_TurnOnWithColour ==
    /\ [][(light.pc = "idle" /\ light'.has_rgb) =>
             (light'.pc = "led_color" /\ light'.calls = <<"led_color">>)]_vars
    /\ [][light.pc = "led_color" =>
             /\ light'.pc = "led_power"
             /\ light'.led_on
             /\ light'.calls = <<"led_color", "led_power">>]_vars
    /\ [][light.pc = "led_power" =>
             (light'.pc = "done" /\ light'.calls = light.calls)]_vars
    /\ []((/\ light.pc = "done"
            /\ light.has_rgb
            /\ light.color_result = "True"
            /\ light.power_result = "True") =>
              /\ light.bright = 100
              /\ light.hue = RgbToHue(light.rgb))

\* both commands succeeded for a colour of value 50 percent: the vendor
\* holds brightness 100
C39_Witness ==
    /\ light.pc = "done"
    /\ light.has_rgb
    /\ light.color_result = "True"
    /\ light.power_result = "True"
    /\ RgbToBrightness(light.rgb) = 50
    /\ light.bright = 100
    /\ light.calls = <<"led_color", "led_power">>

====
